---- MODULE Spec2Model ----
(***************************************************************************)
(* Persistence core of pms-python: the SQLAlchemy models (app/models.py),  *)
(* the SQLite engine configuration (app/db.py) and the repository with its *)
(* unit-of-work scope get_session (app/repository.py).                     *)
(*                                                                         *)
(* The store is modelled twice: db is the committed content of pms.db and  *)
(* tx is what the open transaction sees.  The Session is modelled by its   *)
(* identity map (objs), its set of objects marked by session.delete        *)
(* (deleted) and the relationship collections that a delete cascade has    *)
(* loaded (coll, det).  autoflush is off, so nothing reaches tx until a    *)
(* repository function calls session.flush() or get_session commits.       *)
(***************************************************************************)
EXTENDS Integers, Sequences, FiniteSets, TLC

\* ---------------------------------------------------------------- bounds
MaxId == 2        \* largest primary key the model lets SQLite assign
MaxCalls == 2     \* repository calls made in one run of the model

\* ------------------------------------------------------ values and text
\* Text is a sequence of one-character strings.  Python's None is kept
\* apart from every text by a value that is not made of single characters.
None == <<"None">>
\* None passed where an integer id is expected (Optional[int]).
NoId == -1

Kinds == {"City", "Neighborhood", "Street", "PoliceStation"}
Ids == 1 .. MaxId

RECURSIVE lstrip(_)
lstrip(s) == IF s # <<>> /\ Head(s) = " " THEN lstrip(Tail(s)) ELSE s

RECURSIVE rstrip(_)
rstrip(s) == IF s # <<>> /\ s[Len(s)] = " " THEN rstrip(SubSeq(s, 1, Len(s) - 1)) ELSE s

\* Trimming that leaves the trailing whitespace in place.
strip_leading(s) == lstrip(s)

\* str.strip()
strip(s) == rstrip(lstrip(s))

\* (value or '').strip() or None
optional(v) ==
  LET s == strip(IF v = None \/ v = <<>> THEN <<>> ELSE v)
  IN IF s = <<>> THEN None ELSE s

\* Code points of the characters the model uses, for ORDER BY name.
Ord(c) == CASE c = " " -> 32 [] c = "B" -> 66 [] c = "a" -> 97 [] c = "b" -> 98
            [] c = "x" -> 120 [] c = "y" -> 121 [] OTHER -> 0

\* SQLite BINARY collation: byte-wise comparison, a prefix sorts first.
RECURSIVE TextLess(_, _)
TextLess(s, t) ==
  IF t = <<>> THEN FALSE
  ELSE IF s = <<>> THEN TRUE
  ELSE IF Ord(Head(s)) # Ord(Head(t)) THEN Ord(Head(s)) < Ord(Head(t))
  ELSE TextLess(Tail(s), Tail(t))

\* ------------------------------------------------------------ the store
Restrict(f, S) == [x \in S |-> f[x]]

EmptyTable == [i \in {} |-> 0]
EmptyStore == [k \in Kinds |-> EmptyTable]

SetMax(S) == CHOOSE x \in S : \A y \in S : y <= x

\* INTEGER PRIMARY KEY without AUTOINCREMENT: SQLite assigns max(rowid)+1.
NextId(tbl) == IF DOMAIN tbl = {} THEN 1 ELSE SetMax(DOMAIN tbl) + 1

\* The column holding the parent reference, as a value.
ParentKind(kind) == CASE kind = "Neighborhood" -> "City"
                      [] kind = "Street" -> "Neighborhood"
                      [] kind = "PoliceStation" -> "City"
                      [] OTHER -> "None"

ParentOf(kind, row) == CASE kind = "Neighborhood" -> row.city_id
                         [] kind = "Street" -> row.neighborhood_id
                         [] kind = "PoliceStation" -> row.city_id
                         [] OTHER -> NoId

\* nullable=False on the parent column.
ParentRequired(kind) == kind \in {"Neighborhood", "Street"}

\* The UniqueConstraint of each model: SQLite compares the listed columns
\* and never lets a NULL equal anything, another NULL included.
UniqueConflict(kind, r1, r2) ==
  CASE kind = "City" ->
         /\ r1.name = r2.name
         /\ r1.state # None /\ r1.state = r2.state
         /\ r1.country # None /\ r1.country = r2.country
    [] OTHER ->
         /\ r1.name = r2.name
         /\ ParentOf(kind, r1) # NoId /\ ParentOf(kind, r1) = ParentOf(kind, r2)

\* What makes SQLite reject writing row as (kind, id) into store t:
\* NOT NULL, FOREIGN KEY (PRAGMA foreign_keys=ON) and UNIQUE.
ConstraintFails(t, kind, id, row) ==
  \/ ParentRequired(kind) /\ ParentOf(kind, row) = NoId
  \/ /\ kind # "City"
     /\ ParentOf(kind, row) # NoId
     /\ ParentOf(kind, row) \notin DOMAIN t[ParentKind(kind)]
  \/ \E j \in DOMAIN t[kind] \ {id} : UniqueConflict(kind, row, t[kind][j])

\* ON DELETE CASCADE / ON DELETE SET NULL, applied by SQLite itself.
ForeignKeyActions(t) ==
  LET nbs == {j \in DOMAIN t.Neighborhood : t.Neighborhood[j].city_id \in DOMAIN t.City}
      sts == {j \in DOMAIN t.Street : t.Street[j].neighborhood_id \in nbs}
  IN [City |-> t.City,
      Neighborhood |-> Restrict(t.Neighborhood, nbs),
      Street |-> Restrict(t.Street, sts),
      PoliceStation |->
        [j \in DOMAIN t.PoliceStation |->
           IF t.PoliceStation[j].city_id = NoId
              \/ t.PoliceStation[j].city_id \in DOMAIN t.City
           THEN t.PoliceStation[j]
           ELSE [t.PoliceStation[j] EXCEPT !.city_id = NoId]]]

\* DELETE FROM <table> WHERE id = ? for every key, then the FK actions.
DeleteRows(t, keys) ==
  ForeignKeyActions([k \in Kinds |->
     Restrict(t[k], {j \in DOMAIN t[k] : <<k, j>> \notin keys})])

\* the primary keys in use in store t, per model
Keys(t) == UNION {{<<k, j>> : j \in DOMAIN t[k]} : k \in Kinds}

\* foreign keys resolve in store t
ForeignKeysResolve(t) ==
  /\ \A j \in DOMAIN t.Neighborhood : t.Neighborhood[j].city_id \in DOMAIN t.City
  /\ \A j \in DOMAIN t.Street : t.Street[j].neighborhood_id \in DOMAIN t.Neighborhood
  /\ \A j \in DOMAIN t.PoliceStation :
        t.PoliceStation[j].city_id = NoId \/ t.PoliceStation[j].city_id \in DOMAIN t.City

\* -------------------------------------------------------------- Session
\* objs: identity map (primary key -> attributes as the Session holds them)
\* deleted: Session._deleted, objects marked by session.delete, not flushed
\* coll: relationship collections a delete cascade has loaded, per owner:
\*       the members that are still the objects of this Session
\* det:  members of those collections that were expunged since
EmptySession ==
  [objs |-> [k \in {} |-> 0], deleted |-> {}, coll |-> [k \in {} |-> {}], det |-> [k \in {} |-> {}]]

Exists(t, k) == k[2] \in DOMAIN t[k[1]]
RowOf(t, k) == t[k[1]][k[2]]

\* The lazy load of City.neighborhoods and City.police_stations, or of
\* Neighborhood.streets: a SELECT by the owner's primary key.
Children(t, k) ==
  CASE k[1] = "City" ->
         {<<"Neighborhood", j>> : j \in {i \in DOMAIN t.Neighborhood : t.Neighborhood[i].city_id = k[2]}}
         \cup {<<"PoliceStation", j>> : j \in {i \in DOMAIN t.PoliceStation : t.PoliceStation[i].city_id = k[2]}}
    [] k[1] = "Neighborhood" ->
         {<<"Street", j>> : j \in {i \in DOMAIN t.Street : t.Street[i].neighborhood_id = k[2]}}
    [] OTHER -> {}

\* Rows a query returns become objects of the Session unless the identity
\* map already holds an object for the key, which is then kept as it is.
Attach(s, t, K) ==
  [s EXCEPT !.objs = [k \in DOMAIN s.objs \cup {x \in K : Exists(t, x)} |->
                        IF k \in DOMAIN s.objs THEN s.objs[k] ELSE RowOf(t, k)]]

\* session.get(Model, id): the identity map first, then a SELECT.
get_found(s, t, k) == k \in DOMAIN s.objs \/ Exists(t, k)
get(s, t, k) == Attach(s, t, {k})

\* The collection of owner p as a delete cascade sees it.
CollOf(s, t, p) == IF p \in DOMAIN s.coll THEN s.coll[p] \cup s.det[p] ELSE Children(t, p)

\* cascade="all, delete-orphan": mapper.cascade_iterator("delete") from h.
CascadeOf(s, t, h) ==
  LET c1 == CollOf(s, t, h)
      c2 == UNION {CollOf(s, t, c) : c \in c1}
  IN {h} \cup c1 \cup c2

\* session.delete(obj) on the object of key h.  Marking an object that is
\* already marked returns at once.  A collection member that was expunged
\* is attached again, which fails when the identity map holds another
\* object for its key.
session_delete(s, t, h) ==
  IF h \in s.deleted THEN [err |-> "ok", sess |-> s, marked |-> {}]
  ELSE
    LET all == CascadeOf(s, t, h)
        owners == {p \in all : p[1] \in {"City", "Neighborhood"}}
        clash == \E p \in owners \cap DOMAIN s.det : \E d \in s.det[p] : d \in DOMAIN s.objs
        a == Attach(s, t, all)
    IN IF clash THEN [err |-> "InvalidRequestError", sess |-> s, marked |-> {}]
       ELSE [err |-> "ok",
             marked |-> all \ s.deleted,
             sess |-> [objs |-> a.objs,
                       deleted |-> s.deleted \cup all,
                       coll |-> [p \in DOMAIN s.coll \cup owners |->
                                   IF p \in owners THEN CollOf(s, t, p) ELSE s.coll[p]],
                       det |-> [p \in DOMAIN s.det \cup owners |->
                                   IF p \in owners THEN {} ELSE s.det[p]]]]

\* session.expunge(obj) for every obj of K: the "expunge" cascade follows
\* the collections that are loaded, and every object reached leaves the
\* identity map and Session._deleted.
ExpungeSet(s, K) ==
  LET here == K \cap DOMAIN s.objs
      c1 == UNION {s.coll[p] : p \in here \cap DOMAIN s.coll}
      c2 == UNION {s.coll[p] : p \in c1 \cap DOMAIN s.coll}
  IN here \cup c1 \cup c2

expunge(s, K) ==
  LET E == ExpungeSet(s, K)
      keep == DOMAIN s.coll \ E
  IN [objs |-> Restrict(s.objs, DOMAIN s.objs \ E),
      deleted |-> s.deleted \ E,
      coll |-> [p \in keep |-> s.coll[p] \ E],
      det |-> [p \in keep |-> s.det[p] \cup (s.coll[p] \cap E)]]

\* The columns an UPDATE sets are those whose value differs from what the
\* object held; the others keep what the row has.
Merge(kind, trow, old, new) ==
  CASE kind = "City" ->
         [name |-> IF new.name # old.name THEN new.name ELSE trow.name,
          state |-> IF new.state # old.state THEN new.state ELSE trow.state,
          country |-> IF new.country # old.country THEN new.country ELSE trow.country]
    [] kind = "Neighborhood" ->
         [name |-> IF new.name # old.name THEN new.name ELSE trow.name,
          city_id |-> IF new.city_id # old.city_id THEN new.city_id ELSE trow.city_id]
    [] kind = "Street" ->
         [name |-> IF new.name # old.name THEN new.name ELSE trow.name,
          neighborhood_id |-> IF new.neighborhood_id # old.neighborhood_id
                              THEN new.neighborhood_id ELSE trow.neighborhood_id]
    [] OTHER ->
         [name |-> IF new.name # old.name THEN new.name ELSE trow.name,
          city_id |-> IF new.city_id # old.city_id THEN new.city_id ELSE trow.city_id,
          address |-> IF new.address # old.address THEN new.address ELSE trow.address]

NoSave == [op |-> "none", kind |-> "City", id |-> 0]

\* The INSERT or UPDATE of a flush.  An object that is also marked deleted
\* is left out of the saves: its DELETE is all that is emitted.
Save(s, t, save) ==
  LET k == <<save.kind, save.id>> IN
  CASE save.op = "insert" ->
         IF ConstraintFails(t, save.kind, save.id, save.row)
         THEN [err |-> "IntegrityError", tx |-> t]
         ELSE [err |-> "ok",
               tx |-> [t EXCEPT ![save.kind] =
                         [j \in DOMAIN t[save.kind] \cup {save.id} |->
                            IF j = save.id THEN save.row ELSE t[save.kind][j]]]]
    [] save.op = "update" /\ k \notin s.deleted /\ save.row # save.old ->
         IF ~Exists(t, k) THEN [err |-> "StaleDataError", tx |-> t]
         ELSE LET row == Merge(save.kind, RowOf(t, k), save.old, save.row) IN
              IF ConstraintFails(t, save.kind, save.id, row)
              THEN [err |-> "IntegrityError", tx |-> t]
              ELSE [err |-> "ok", tx |-> [t EXCEPT ![save.kind][save.id] = row]]
    [] OTHER -> [err |-> "ok", tx |-> t]

\* session.flush(): the save first, then the DELETE of every marked object
\* (children before parents); the objects deleted leave the Session.
flush(s, t, save) ==
  LET sv == Save(s, t, save)
      k == <<save.kind, save.id>>
      left == DOMAIN s.objs \ s.deleted
      saved == IF save.op \in {"insert", "update"} /\ k \notin s.deleted THEN {k} ELSE {}
  IN IF sv.err # "ok" THEN [err |-> sv.err, tx |-> t, sess |-> s]
     ELSE [err |-> "ok",
           tx |-> DeleteRows(sv.tx, s.deleted),
           sess |-> [objs |-> [x \in left \cup saved |-> IF x \in saved THEN save.row ELSE s.objs[x]],
                     deleted |-> {},
                     coll |-> Restrict(s.coll, DOMAIN s.coll \ s.deleted),
                     det |-> Restrict(s.det, DOMAIN s.det \ s.deleted)]]

\* ---------------------------------------------------------------- state
VARIABLES
  db,        \* committed content of the database
  tx,        \* content as the open transaction sees it
  sess,      \* the Session of the open scope
  pc,        \* where get_session is: idle, body, commit, except, finally
  failure,   \* the exception in flight, "none" when there is none
  first,     \* the exception the body or the commit raised in this scope
  rolled,    \* session.rollback() in this scope: "no", "done" or "failed"
  commits,   \* commits of this scope that took effect
  closes,    \* session.close() calls of this scope
  outcome,   \* what the caller of the last scope got: "ok" or the exception
  calls,     \* repository calls made so far
  log,       \* the repository calls of this scope, in order
  pre,       \* db when this scope was opened
  issued     \* the primary keys that db has held at any time, per model

vars == <<db, tx, sess, pc, failure, first, rolled, commits, closes, outcome, calls, log, pre, issued>>

\* ------------------------------------------------- inputs of the callers
\* name is declared str: the callers pass the text of an entry field
Names == {<<"a">>, <<" ", "a">>, <<"b", " ">>, <<" ">>}
States == {None, <<" ">>, <<"x">>}
Countries == {None, <<"y">>}
Addresses == {None, <<"y", " ">>}
\* ids a caller passes: 0 and None are passed too
IdArgs == Ids
ParentArgs == Ids \cup {0, NoId}

City(n, s, c) == [name |-> n, state |-> s, country |-> c]
Neighborhood(n, c) == [name |-> n, city_id |-> c]
Street(n, nb) == [name |-> n, neighborhood_id |-> nb]
PoliceStation(n, c, a) == [name |-> n, city_id |-> c, address |-> a]

\* Databases the program is started on: a new one, and three it has filled.
SmallStore ==
  [City |-> [i \in {1} |-> City(<<"a">>, <<"x">>, <<"y">>)],
   Neighborhood |-> [i \in {1} |-> Neighborhood(<<"a">>, 1)],
   Street |-> [i \in {1} |-> Street(<<"a">>, 1)],
   PoliceStation |-> [i \in {1} |-> PoliceStation(<<"a">>, 1, None)]]

FullStore ==
  [City |-> [i \in {1, 2} |-> IF i = 1 THEN City(<<"a">>, <<"x">>, <<"y">>) ELSE City(<<"b">>, None, None)],
   Neighborhood |-> [i \in {1, 2} |-> Neighborhood(<<"a">>, i)],
   Street |-> [i \in {1, 2} |-> Street(<<"a">>, i)],
   PoliceStation |-> [i \in {1, 2} |-> IF i = 1 THEN PoliceStation(<<"a">>, 1, None)
                                       ELSE PoliceStation(<<"b">>, NoId, <<"y">>)]]

\* A City without state and country and a PoliceStation without a city.
SparseStore ==
  [City |-> [i \in {1} |-> City(<<"b">>, None, None)],
   Neighborhood |-> EmptyTable,
   Street |-> EmptyTable,
   PoliceStation |-> [i \in {1} |-> PoliceStation(<<"b">>, NoId, None)]]

InitStores == {EmptyStore, SmallStore, SparseStore, FullStore}

Init ==
  /\ db \in InitStores
  /\ tx = db
  /\ sess = EmptySession
  /\ pc = "idle"
  /\ failure = "none"
  /\ first = "none"
  /\ rolled = "no"
  /\ commits = 0
  /\ closes = 0
  /\ outcome = "none"
  /\ calls = 0
  /\ log = <<>>
  /\ pre = db
  /\ issued = Keys(db)

\* -------------------------------------------------- the repository calls
\* One entry of log: the call, its normalized arguments, what it returned
\* or raised, and what held of its target when it was called.
Entry(op, kind, id, row, res, marked, out) ==
  [op |-> op, kind |-> kind, id |-> id, row |-> row, res |-> res,
   existed |-> id \in DOMAIN tx[kind],
   pending |-> <<kind, id>> \in sess.deleted,
   marked |-> marked,
   before |-> tx,
   out |-> out]

\* The call returns: the scope goes on.
Return(t, s, e) ==
  /\ tx' = t
  /\ sess' = s
  /\ log' = Append(log, e)
  /\ calls' = calls + 1
  /\ UNCHANGED <<db, pc, failure, first, rolled, commits, closes, outcome, pre, issued>>

\* The call raises: the body is left and get_session's except clause runs.
\* A flush that fails has rolled the transaction back by itself.
Raise(err, e) ==
  /\ tx' = IF err \in {"IntegrityError", "StaleDataError"} THEN db ELSE tx
  /\ failure' = err
  /\ first' = err
  /\ pc' = "except"
  /\ log' = Append(log, e)
  /\ calls' = calls + 1
  /\ UNCHANGED <<db, sess, rolled, commits, closes, outcome, pre, issued>>

InBody == pc = "body" /\ calls < MaxCalls

\* session.add(obj); session.flush() of the create functions
add_flush(kind, row) ==
  LET id == NextId(tx[kind])
      f == flush(sess, tx, [op |-> "insert", kind |-> kind, id |-> id, row |-> row, old |-> row])
  IN /\ id <= MaxId
     /\ IF f.err = "ok"
        THEN Return(f.tx, f.sess, Entry("create", kind, id, row, "ok", {}, <<>>))
        ELSE Raise(f.err, Entry("create", kind, id, row, f.err, {}, <<>>))

\* session.get, the "not found" check, the assignments and session.flush()
\* of the update functions
get_set_flush(kind, id, row) ==
  LET k == <<kind, id>>
      g == get(sess, tx, k)
      f == flush(g, tx, [op |-> "update", kind |-> kind, id |-> id, row |-> row, old |-> g.objs[k]])
  IN IF ~get_found(sess, tx, k)
     THEN Raise("ValueError", Entry("update", kind, id, row, "ValueError", {}, <<>>))
     ELSE IF f.err = "ok"
     THEN Return(f.tx, f.sess, Entry("update", kind, id, row, "ok", {}, <<>>))
     ELSE Raise(f.err, Entry("update", kind, id, row, f.err, {}, <<>>))

\* session.get, the "not found" check and session.delete of the delete
\* functions; nothing is flushed
get_delete(kind, id) ==
  LET k == <<kind, id>>
      g == get(sess, tx, k)
      d == session_delete(g, tx, k)
  IN IF ~get_found(sess, tx, k)
     THEN Raise("ValueError", Entry("delete", kind, id, <<>>, "ValueError", {}, <<>>))
     ELSE IF d.err = "ok"
     THEN Return(tx, d.sess, Entry("delete", kind, id, <<>>, "ok", d.marked, <<>>))
     ELSE Raise(d.err, Entry("delete", kind, id, <<>>, d.err, {}, <<>>))

\* The rows in primary key order, whatever their names.
RECURSIVE OrderById(_, _)
OrderById(tbl, ids) ==
  IF ids = {} THEN <<>>
  ELSE LET m == CHOOSE i \in ids : \A j \in ids : i <= j
       IN <<m>> \o OrderById(tbl, ids \ {m})

\* ORDER BY name; rows of equal name in primary key order
RECURSIVE OrderByName(_, _)
OrderByName(tbl, ids) ==
  IF ids = {} THEN <<>>
  ELSE LET m == CHOOSE i \in ids : \A j \in ids \ {i} :
                   \/ TextLess(tbl[i].name, tbl[j].name)
                   \/ tbl[i].name = tbl[j].name /\ i < j
       IN <<m>> \o OrderByName(tbl, ids \ {m})

\* query(...).order_by(name).all() with the optional parent filter, which
\* "if parent_id:" applies only to a value Python takes for true; then
\* session.expunge of every object returned
query_expunge(kind, parent) ==
  LET ids == {j \in DOMAIN tx[kind] :
                 parent = NoId \/ parent = 0 \/ ParentOf(kind, tx[kind][j]) = parent}
      keys == {<<kind, j>> : j \in ids}
      a == Attach(sess, tx, keys)
      order == OrderByName(tx[kind], ids)
      out == [n \in 1 .. Len(order) |-> [id |-> order[n], row |-> a.objs[<<kind, order[n]>>]]]
  IN Return(tx, expunge(a, keys), Entry("list", kind, parent, <<>>, "ok", {}, out))

list_cities == InBody /\ query_expunge("City", NoId)

create_city(name, state, country) ==
  /\ InBody
  /\ add_flush("City", City(strip(name), optional(state), optional(country)))

update_city(city_id, name, state, country) ==
  /\ InBody
  /\ get_set_flush("City", city_id, City(strip(name), optional(state), optional(country)))

delete_city(city_id) == InBody /\ get_delete("City", city_id)

list_neighborhoods(city_id) == InBody /\ query_expunge("Neighborhood", city_id)

create_neighborhood(name, city_id) ==
  /\ InBody
  /\ add_flush("Neighborhood", Neighborhood(strip(name), city_id))

update_neighborhood(nb_id, name, city_id) ==
  /\ InBody
  /\ get_set_flush("Neighborhood", nb_id, Neighborhood(strip(name), city_id))

delete_neighborhood(nb_id) == InBody /\ get_delete("Neighborhood", nb_id)

list_streets(neighborhood_id) == InBody /\ query_expunge("Street", neighborhood_id)

create_street(name, neighborhood_id) ==
  /\ InBody
  /\ add_flush("Street", Street(strip(name), neighborhood_id))

update_street(st_id, name, neighborhood_id) ==
  /\ InBody
  /\ get_set_flush("Street", st_id, Street(strip(name), neighborhood_id))

delete_street(st_id) == InBody /\ get_delete("Street", st_id)

list_police_stations(city_id) == InBody /\ query_expunge("PoliceStation", city_id)

create_police_station(name, city_id, address) ==
  /\ InBody
  /\ add_flush("PoliceStation", PoliceStation(strip(name), city_id, optional(address)))

update_police_station(ps_id, name, city_id, address) ==
  /\ InBody
  /\ get_set_flush("PoliceStation", ps_id, PoliceStation(strip(name), city_id, optional(address)))

delete_police_station(ps_id) == InBody /\ get_delete("PoliceStation", ps_id)

\* ---------------------------------------------------------- get_session
\* session = SessionLocal(): a caller enters "with get_session() as s"
Open ==
  /\ pc = "idle"
  /\ pc' = "body"
  /\ sess' = EmptySession
  /\ tx' = db
  /\ pre' = db
  /\ log' = <<>>
  /\ failure' = "none"
  /\ first' = "none"
  /\ rolled' = "no"
  /\ commits' = 0
  /\ closes' = 0
  /\ outcome' = "none"
  /\ UNCHANGED <<db, calls, issued>>

\* the body of the with statement ends: control returns after the yield
BodyDone ==
  /\ pc = "body"
  /\ pc' = "commit"
  /\ UNCHANGED <<db, tx, sess, failure, first, rolled, commits, closes, outcome, calls, log, pre, issued>>

\* session.commit(): the flush of what is pending, then COMMIT
Commit ==
  /\ pc = "commit"
  /\ LET f == flush(sess, tx, NoSave) IN
       /\ db' = f.tx
       /\ tx' = f.tx
       /\ sess' = f.sess
       /\ issued' = issued \cup Keys(f.tx)
  /\ commits' = commits + 1
  /\ pc' = "finally"
  /\ UNCHANGED <<failure, first, rolled, closes, outcome, calls, log, pre>>

\* session.commit() raises (the database is locked, the disk is full):
\* nothing of the transaction is committed
CommitFails ==
  /\ pc = "commit"
  /\ failure' = "OperationalError"
  /\ first' = "OperationalError"
  /\ pc' = "except"
  /\ UNCHANGED <<db, tx, sess, rolled, commits, closes, outcome, calls, log, pre, issued>>

\* Rollback without the "raise" that follows it: the exception is swallowed.
RollbackSwallows ==
  /\ pc = "except"
  /\ tx' = db
  /\ sess' = EmptySession
  /\ rolled' = "done"
  /\ failure' = "none"
  /\ pc' = "finally"
  /\ UNCHANGED <<db, first, commits, closes, outcome, calls, log, pre, issued>>

\* except Exception: session.rollback(); raise
Rollback ==
  /\ pc = "except"
  /\ tx' = db
  /\ sess' = EmptySession
  /\ rolled' = "done"
  /\ pc' = "finally"
  /\ UNCHANGED <<db, failure, first, commits, closes, outcome, calls, log, pre, issued>>

\* RollbackFails with session.close() at the end of the try block instead
\* of in a finally clause: the exception leaves get_session at once.
RollbackFailsUnclosed ==
  /\ pc = "except"
  /\ rolled' = "failed"
  /\ failure' = "none"
  /\ outcome' = "RollbackError"
  /\ pc' = "idle"
  /\ UNCHANGED <<db, tx, sess, first, commits, closes, calls, log, pre, issued>>

\* session.rollback() raises itself: its exception is the one in flight
\* when the except clause is left, and "raise" is not reached
RollbackFails ==
  /\ pc = "except"
  /\ rolled' = "failed"
  /\ failure' = "RollbackError"
  /\ pc' = "finally"
  /\ UNCHANGED <<db, tx, sess, first, commits, closes, outcome, calls, log, pre, issued>>

\* finally: session.close(); then the caller has control again, with the
\* exception in flight if there is one
Close ==
  /\ pc = "finally"
  /\ closes' = closes + 1
  /\ sess' = EmptySession
  /\ tx' = db
  /\ outcome' = IF failure = "none" THEN "ok" ELSE failure
  /\ failure' = "none"
  /\ pc' = "idle"
  /\ UNCHANGED <<db, first, rolled, commits, calls, log, pre, issued>>

ScopeStep == BodyDone \/ Commit \/ CommitFails \/ Rollback \/ RollbackFails \/ Close

Call ==
  \/ list_cities
  \/ \E n \in Names, s \in States, c \in Countries : create_city(n, s, c)
  \/ \E i \in IdArgs, n \in Names, s \in States, c \in Countries : update_city(i, n, s, c)
  \/ \E i \in IdArgs : delete_city(i)
  \/ \E p \in ParentArgs : list_neighborhoods(p)
  \/ \E n \in Names, p \in ParentArgs : create_neighborhood(n, p)
  \/ \E i \in IdArgs, n \in Names, p \in ParentArgs : update_neighborhood(i, n, p)
  \/ \E i \in IdArgs : delete_neighborhood(i)
  \/ \E p \in ParentArgs : list_streets(p)
  \/ \E n \in Names, p \in ParentArgs : create_street(n, p)
  \/ \E i \in IdArgs, n \in Names, p \in ParentArgs : update_street(i, n, p)
  \/ \E i \in IdArgs : delete_street(i)
  \/ \E p \in ParentArgs : list_police_stations(p)
  \/ \E n \in Names, p \in ParentArgs, a \in Addresses : create_police_station(n, p, a)
  \/ \E i \in IdArgs, n \in Names, p \in ParentArgs, a \in Addresses : update_police_station(i, n, p, a)
  \/ \E i \in IdArgs : delete_police_station(i)

Next == Open \/ Call \/ ScopeStep

Spec == Init /\ [][Next]_vars

\* get_session around the City repository alone, with the scheduling of
\* the program: a scope that is entered runs on until it is left.
CityCall ==
  \/ list_cities
  \/ \E n \in {<<"a">>, <<" ">>} : create_city(n, <<"x">>, <<"y">>)
  \/ \E i \in IdArgs, n \in {<<"b", " ">>, <<"a">>} : update_city(i, n, <<"x">>, <<"y">>)
  \/ \E i \in IdArgs : delete_city(i)

ScopeNext == Open \/ CityCall \/ ScopeStep

ScopeSpec == Init /\ [][ScopeNext]_vars /\ WF_vars(ScopeStep)

\* Callers that store free text: the City and PoliceStation dialogs, with
\* the text of their entry fields as it is typed.
TextCall ==
  \/ \E n \in {<<" ", "a">>, <<"b", " ">>}, s \in States, c \in Countries : create_city(n, s, c)
  \/ \E i \in IdArgs, s \in {<<" ">>, <<"x">>} : update_city(i, <<"b", " ">>, s, <<"y">>)
  \/ \E a \in Addresses : create_police_station(<<"b", " ">>, NoId, a)
  \/ \E i \in IdArgs, a \in Addresses : update_police_station(i, <<" ", "a">>, NoId, a)

TextNext == Open \/ TextCall \/ ScopeStep

TextSpec == Init /\ [][TextNext]_vars

\* Callers that rename Neighborhoods and refresh their lists.
ListCall ==
  \/ list_cities
  \/ \E p \in ParentArgs : list_neighborhoods(p)
  \/ \E p \in ParentArgs : list_streets(p)
  \/ \E p \in ParentArgs : list_police_stations(p)
  \/ \E i \in IdArgs, n \in {<<"B">>, <<"b">>} : update_neighborhood(i, n, 1)

ListNext == Open \/ ListCall \/ ScopeStep

ListSpec == Init /\ [][ListNext]_vars

\* ------------------------------------------ commit_with_integrity_handling
\* The constraint SQLite names in the IntegrityError for writing row as
\* (kind, id) into store t: NOT NULL and UNIQUE are checked as the row is
\* written, FOREIGN KEY when the statement ends.
ViolatedConstraint(t, kind, id, row) ==
  IF ParentRequired(kind) /\ ParentOf(kind, row) = NoId THEN "NOT NULL"
  ELSE IF \E j \in DOMAIN t[kind] \ {id} : UniqueConflict(kind, row, t[kind][j]) THEN "UNIQUE"
  ELSE IF ConstraintFails(t, kind, id, row) THEN "FOREIGN KEY"
  ELSE "none"

\* What a caller has put into the session with session.add and left for
\* the commit to flush: nothing, or a new Neighborhood.
PendingAdds ==
  {[op |-> "none", kind |-> "Neighborhood", row |-> <<>>]}
  \cup {[op |-> "insert", kind |-> "Neighborhood", row |-> Neighborhood(<<"a">>, p)] : p \in Ids \cup {NoId}}

\* The entry of log for a call of commit_with_integrity_handling: raised
\* is what session.commit() raised and constraint the constraint it named.
CommitEntry(add, id, res, raised, constraint) ==
  [op |-> "commit", kind |-> add.kind, id |-> id, row |-> add.row, res |-> res,
   existed |-> FALSE, pending |-> FALSE, marked |-> {}, before |-> tx, out |-> <<>>,
   raised |-> raised, constraint |-> constraint]

\* try: session.commit()
\* except IntegrityError as e: session.rollback(); raise DuplicateError(str(e))
commit_with_integrity_handling(add) ==
  LET id == NextId(tx[add.kind])
      save == IF add.op = "insert"
              THEN [op |-> "insert", kind |-> add.kind, id |-> id, row |-> add.row, old |-> add.row]
              ELSE NoSave
      f == flush(sess, tx, save)
      c == IF add.op = "insert" THEN ViolatedConstraint(tx, add.kind, id, add.row) ELSE "none"
  IN /\ InBody
     /\ calls' = calls + 1
     /\ \/ /\ f.err = "ok"
           /\ add.op = "insert" => id <= MaxId
           /\ db' = f.tx
           /\ tx' = f.tx
           /\ sess' = f.sess
           /\ issued' = issued \cup Keys(f.tx)
           /\ commits' = commits + 1
           /\ log' = Append(log, CommitEntry(add, id, "ok", "none", "none"))
           /\ UNCHANGED <<pc, failure, first, rolled, closes, outcome, pre>>
        \/ /\ f.err = "IntegrityError"
           /\ tx' = db
           /\ sess' = EmptySession
           /\ failure' = "DuplicateError"
           /\ first' = "DuplicateError"
           /\ pc' = "except"
           /\ log' = Append(log, CommitEntry(add, id, "DuplicateError", "IntegrityError", c))
           /\ UNCHANGED <<db, rolled, commits, closes, outcome, pre, issued>>
        \/ /\ failure' = "OperationalError"
           /\ first' = "OperationalError"
           /\ pc' = "except"
           /\ log' = Append(log, CommitEntry(add, id, "OperationalError", "OperationalError", "none"))
           /\ UNCHANGED <<db, tx, sess, rolled, commits, closes, outcome, pre, issued>>

\* A caller that ends its work on Neighborhoods with the translator.
HelperCall ==
  \/ \E add \in PendingAdds : commit_with_integrity_handling(add)
  \/ \E n \in {<<"a">>, <<"b", " ">>}, p \in Ids : create_neighborhood(n, p)
  \/ \E i \in IdArgs : delete_neighborhood(i)

HelperNext == Open \/ HelperCall \/ ScopeStep

HelperSpec == Init /\ [][HelperNext]_vars

\* ---------------------------------------------------------------- claims
\* The last scope has been left and the caller has its outcome.
Left == pc = "idle" /\ outcome # "none"

\* C2 as stated: when the body or the commit raised, the scope rolled back,
\* no commit is in effect, and the caller got that same exception.
C2_SameFailureAlways ==
  Left /\ first # "none" =>
    /\ rolled = "done"
    /\ commits = 0 /\ db = pre
    /\ outcome = first

\* C2 amended: when the body or the commit raised, the scope called
\* session.rollback(), no commit is in effect, and the caller got an
\* exception: the same one when the rollback went through, the rollback's
\* own when session.rollback() raised; and an outcome without exception
\* means nothing was raised.
C2_RollbackAndReraise ==
  /\ Left /\ first # "none" =>
       /\ rolled # "no"
       /\ commits = 0 /\ db = pre
       /\ outcome # "ok"
       /\ rolled = "done" => outcome = first
       /\ rolled = "failed" => outcome = "RollbackError"
  /\ Left /\ outcome = "ok" => first = "none" /\ rolled = "no" /\ commits = 1

\* a scope whose second call failed after its first had been flushed, and
\* which re-raised that failure after the rollback
C2_Witness ==
  /\ Left /\ Len(log) = 2
  /\ log[1].op = "create" /\ log[1].res = "ok"
  /\ log[2].res = "IntegrityError"
  /\ first = "IntegrityError" /\ outcome = "IntegrityError" /\ rolled = "done"

\* C3: the session of a scope is closed exactly once, after the commit or
\* the rollback and before the caller has control again, on every way out
\* of get_session; and every scope that is entered is left.
C3_AlwaysReleased ==
  /\ [](pc \in {"body", "commit", "except"} => closes = 0)
  /\ [](pc = "finally" => closes = 0 /\ (commits = 1 \/ rolled # "no"))
  /\ [](Left => closes = 1 /\ sess = EmptySession /\ tx = db)
  /\ [](pc # "idle" => <>(pc = "idle"))

\* a scope left after both its body and session.rollback() had raised
C3_Witness ==
  /\ Left /\ closes = 1
  /\ first = "ValueError" /\ rolled = "failed"

\* The last scope committed.
Committed == Left /\ outcome = "ok"

Entries == {log[i] : i \in 1 .. Len(log)}
Mutations == {i \in 1 .. Len(log) : log[i].op # "list"}

\* The scope's only mutation was entry i; its other calls were lists.
OnlyMutation(i) == Mutations = {i}

\* C1: a scope is all or nothing.  When the scope raised, db is what it
\* was when the scope was entered.  When a scope of mutations alone
\* committed, db shows each of them: what a create or an update wrote is
\* there unless a later call of the scope wrote or deleted again, and what
\* a delete removed is gone unless a later call created again.
C1_AllOrNothing ==
  /\ Left /\ outcome # "ok" => db = pre
  /\ Committed /\ Mutations = 1 .. Len(log) =>
       \A i \in 1 .. Len(log) :
         LET e == log[i] IN
           /\ /\ e.op \in {"create", "update"}
              /\ \A j \in i + 1 .. Len(log) :
                    log[j].op = "create" \/ (log[j].op = "update" /\ <<log[j].kind, log[j].id>> # <<e.kind, e.id>>)
              => e.id \in DOMAIN db[e.kind] /\ db[e.kind][e.id] = e.row
           /\ /\ e.op = "delete"
              /\ \A j \in i + 1 .. Len(log) : log[j].op # "create"
              => e.id \notin DOMAIN db[e.kind]

\* Neighborhoods of city c in store t, and the Streets under them
NeighborhoodsOf(t, c) == {j \in DOMAIN t.Neighborhood : t.Neighborhood[j].city_id = c}
StreetsUnder(t, N) == {j \in DOMAIN t.Street : t.Street[j].neighborhood_id \in N}
StationsOf(t, c) == {j \in DOMAIN t.PoliceStation : t.PoliceStation[j].city_id = c}

\* C4: when a scope whose only mutation is delete_city(c) has committed,
\* the Neighborhoods c had and the Streets under them are gone, so that no
\* list returns them, and the other Neighborhoods and Streets are as they
\* were.
C4_CityDeleteCascades ==
  Committed =>
    \A i \in 1 .. Len(log) :
      LET e == log[i]
          N == NeighborhoodsOf(e.before, e.id)
          S == StreetsUnder(e.before, N)
      IN e.op = "delete" /\ e.kind = "City" /\ e.res = "ok" /\ OnlyMutation(i) =>
           /\ db.Neighborhood = Restrict(e.before.Neighborhood, DOMAIN e.before.Neighborhood \ N)
           /\ db.Street = Restrict(e.before.Street, DOMAIN e.before.Street \ S)

\* C5: when a scope whose only mutation is delete_city(c) has committed,
\* every PoliceStation is still there, those that referred to c with no
\* city and the others as they were.
C5_StationsDetached ==
  Committed =>
    \A i \in 1 .. Len(log) :
      LET e == log[i] IN
        e.op = "delete" /\ e.kind = "City" /\ e.res = "ok" /\ OnlyMutation(i) =>
          db.PoliceStation =
            [j \in DOMAIN e.before.PoliceStation |->
               IF j \in StationsOf(e.before, e.id)
               THEN [e.before.PoliceStation[j] EXCEPT !.city_id = NoId]
               ELSE e.before.PoliceStation[j]]

\* C6: create_city with the normalized (name, state, country) of a City
\* that is stored raises DuplicateError and adds no City; with the name
\* and country of a stored City and another state it returns a new id.
C6_DuplicateCity ==
  \A e \in Entries :
    e.op = "create" /\ e.kind = "City" =>
      LET same == {j \in DOMAIN e.before.City : e.before.City[j] = e.row}
          others == {j \in DOMAIN e.before.City :
                       /\ e.before.City[j].name = e.row.name
                       /\ e.before.City[j].country = e.row.country}
      IN /\ same # {} => e.res = "DuplicateError"
         /\ same = {} /\ others # {} => e.res = "ok" /\ e.id \notin DOMAIN e.before.City

\* C7: update of an id that is not stored, or that a delete call of the
\* same scope has removed, raises the "not found" ValueError.
C7_UpdateNotFound ==
  \A e \in Entries :
    e.op = "update" /\ (~e.existed \/ e.pending) => e.res = "ValueError"

\* C8: delete of an id that is not stored, or that a delete call of the
\* same scope has removed, raises the "not found" ValueError.
C8_DeleteNotFound ==
  \A e \in Entries :
    e.op = "delete" /\ (~e.existed \/ e.pending) => e.res = "ValueError"

\* The call was given a blank name, or no parent where one is required.
Invalid(e) ==
  \/ e.row.name = <<>>
  \/ ParentRequired(e.kind) /\ ParentOf(e.kind, e.row) = NoId

\* C9: create, and update of a stored entity, raise ValidationError for a
\* name that is blank and for a required parent that is absent;
\* no stored entity has an empty name.
C9_Validation ==
  /\ \A e \in Entries :
       /\ e.op = "create" \/ (e.op = "update" /\ e.existed)
       /\ Invalid(e)
       => e.res = "ValidationError"
  /\ \A k \in Kinds : \A j \in DOMAIN db[k] : db[k][j].name # <<>>

\* The call names a parent that store t does not hold.
NamesMissingParent(e) ==
  /\ e.kind # "City"
  /\ ParentOf(e.kind, e.row) # NoId
  /\ ParentOf(e.kind, e.row) \notin DOMAIN e.before[ParentKind(e.kind)]

\* C10: in db every reference resolves; and a create or update that names
\* a parent which is not stored raises, and the scope leaves db as it was.
C10_ReferentialIntegrity ==
  /\ ForeignKeysResolve(db)
  /\ \A e \in Entries :
       e.op \in {"create", "update"} /\ NamesMissingParent(e) =>
         /\ e.res # "ok"
         /\ Left => db = pre

\* Two rows agree on the columns of their UniqueConstraint, an absent
\* value counting as a value equal to itself.
SameUniqueKey(kind, r1, r2) ==
  CASE kind = "City" -> r1.name = r2.name /\ r1.state = r2.state /\ r1.country = r2.country
    [] OTHER -> r1.name = r2.name /\ ParentOf(kind, r1) = ParentOf(kind, r2)

\* C11: in db, the committed store, no two Cities share (name, state,
\* country), no two Neighborhoods (name, city), no two Streets (name,
\* neighborhood) and no two PoliceStations (name, city or none), absent
\* values compared as equal.
C11_Uniqueness ==
  \A k \in Kinds : \A i, j \in DOMAIN db[k] :
    i # j => ~SameUniqueKey(k, db[k][i], db[k][j])

\* The scope is open and none of its calls has raised.
Running == pc \in {"body", "commit"}

\* What the transaction held when call i of the scope had returned.
After(i) == IF i < Len(log) THEN log[i + 1].before ELSE tx

\* C12: the primary key a create returns has never been the key of a
\* stored entity of its type, whether that entity is still stored or has
\* been deleted, and differs from the key of every other create of the
\* scope; an update stores nothing under a key that was not in use.
C12_IdentityNeverReused ==
  Running =>
    /\ \A i \in 1 .. Len(log) :
         log[i].op = "create" /\ log[i].res = "ok" =>
           /\ <<log[i].kind, log[i].id>> \notin issued
           /\ \A j \in 1 .. i - 1 :
                log[j].op = "create" /\ log[j].kind = log[i].kind => log[j].id # log[i].id
    /\ \A i \in 1 .. Len(log) :
         log[i].op = "update" /\ log[i].res = "ok" =>
           \A k \in Kinds : DOMAIN After(i)[k] \subseteq DOMAIN log[i].before[k]

\* The positions of list result out whose fields are those of row.
Matching(out, row) == {n \in 1 .. Len(out) : out[n].row = row}

\* C13: when a create has returned and the next calls of the scope are
\* lists, each unfiltered list of that type returns exactly one entity
\* with the created fields, and it has the id the create returned; an
\* update called with that id later in the scope finds the entity.
C13_CreateThenList ==
  \A i \in 1 .. Len(log) : \A j \in i + 1 .. Len(log) :
    /\ log[i].op = "create" /\ log[i].res = "ok" /\ log[j].kind = log[i].kind
    /\ \A n \in i + 1 .. j - 1 : log[n].op = "list"
    => /\ log[j].op = "list" /\ log[j].id = NoId =>
            /\ Cardinality(Matching(log[j].out, log[i].row)) = 1
            /\ \A n \in Matching(log[j].out, log[i].row) : log[j].out[n].id = log[i].id
       /\ log[j].op = "update" /\ log[j].id = log[i].id => log[j].res # "ValueError"

\* The ids a list result holds.
IdsOf(out) == {out[n].id : n \in 1 .. Len(out)}

\* C14: list_neighborhoods, list_streets and list_police_stations return
\* every row when the parent filter is None, and for every other filter
\* value, 0 and ids of no stored row included, the rows whose parent
\* reference is that value and no others.
C14_ParentFilter ==
  \A e \in Entries :
    e.op = "list" /\ e.kind # "City" =>
      /\ e.res = "ok"
      /\ Len(e.out) = Cardinality(IdsOf(e.out))
      /\ IdsOf(e.out) = IF e.id = NoId THEN DOMAIN e.before[e.kind]
                        ELSE {j \in DOMAIN e.before[e.kind] : ParentOf(e.kind, e.before[e.kind][j]) = e.id}

\* C15: commit_with_integrity_handling raises DuplicateError when, and
\* only when, session.commit() failed on a UNIQUE constraint, and has then
\* rolled the session back; a commit that failed on a FOREIGN KEY or a
\* NOT NULL constraint, or for any other reason, reaches the caller as the
\* exception session.commit() raised.
C15_OnlyDuplicatesTranslated ==
  \A i \in 1 .. Len(log) :
    log[i].op = "commit" =>
      /\ log[i].res = "DuplicateError" <=> log[i].constraint = "UNIQUE"
      /\ log[i].constraint # "UNIQUE" => log[i].res = IF log[i].raised = "none" THEN "ok" ELSE log[i].raised
      /\ log[i].res = "DuplicateError" /\ pc = "except" => tx = db /\ sess = EmptySession

\* Text without whitespace at either end.
Trimmed(s) == s = <<>> \/ (Head(s) # " " /\ s[Len(s)] # " ")

\* An optional text as it may be stored: absent, or not empty and trimmed.
NormalOptional(v) == v = None \/ (v # <<>> /\ Trimmed(v))

\* Every free-text field of store t is normalized.
Normalized(t) ==
  /\ \A k \in Kinds : \A j \in DOMAIN t[k] : Trimmed(t[k][j].name)
  /\ \A j \in DOMAIN t.City : NormalOptional(t.City[j].state) /\ NormalOptional(t.City[j].country)
  /\ \A j \in DOMAIN t.PoliceStation : NormalOptional(t.PoliceStation[j].address)

\* Rows r1 and r2 have the same name and the same, present, values in the
\* other columns of their UniqueConstraint.
SamePresentKey(kind, r1, r2) ==
  /\ r1.name = r2.name
  /\ IF kind = "City"
     THEN r1.state = r2.state /\ r1.state # None /\ r1.country = r2.country /\ r1.country # None
     ELSE ParentOf(kind, r1) = ParentOf(kind, r2) /\ ParentOf(kind, r1) # NoId

MatchingRows(t, kind, parent) ==
  {j \in DOMAIN t[kind] : kind = "City" \/ parent = NoId \/ ParentOf(kind, t[kind][j]) = parent}

\* C17: the result of a list holds stored entities of its type, none of
\* them twice and each one that matches the filter; and of two consecutive
\* elements the second's stored name is never less than the first's in
\* the ordinal comparison, in which 'B' comes before 'a'.
C17_OrderedByName ==
  \A e \in Entries :
    e.op = "list" =>
      /\ Len(e.out) = Cardinality(IdsOf(e.out))
      /\ IdsOf(e.out) \subseteq DOMAIN e.before[e.kind]
      /\ MatchingRows(e.before, e.kind, e.id) \subseteq IdsOf(e.out)
      /\ \A n \in 1 .. Len(e.out) - 1 :
           ~TextLess(e.before[e.kind][e.out[n + 1].id].name, e.before[e.kind][e.out[n].id].name)

\* update_neighborhood(2, 'B', 1), then a list of the Neighborhoods that
\* shows Neighborhood 2, 'B', before Neighborhood 1, 'a'
C17_Witness ==
  /\ Len(log) = 2
  /\ log[1].op = "update" /\ log[1].res = "ok"
  /\ log[2].op = "list" /\ log[2].kind = "Neighborhood" /\ Len(log[2].out) = 2
  /\ log[2].out[1].id = 2 /\ log[2].out[1].row.name = <<"B">>
  /\ log[2].out[2].id = 1 /\ log[2].out[2].row.name = <<"a">>

\* C18: a list call leaves the transaction's data as it was, and takes
\* nothing from what the scope has pending: when a scope whose calls are
\* one create, update or delete and, before or after it, lists has
\* committed, db holds the row written, and does not hold the entity
\* deleted.
C18_ListsReadOnly ==
  /\ Running => \A i \in 1 .. Len(log) : log[i].op = "list" => After(i) = log[i].before
  /\ Committed =>
       \A i \in 1 .. Len(log) :
         log[i].res = "ok" /\ OnlyMutation(i) =>
           /\ log[i].op \in {"create", "update"} =>
                log[i].id \in DOMAIN db[log[i].kind] /\ db[log[i].kind][log[i].id] = log[i].row
           /\ log[i].op = "delete" => log[i].id \notin DOMAIN db[log[i].kind]

\* The rows of table tbl without those under the keys of D.
Without(tbl, D) == Restrict(tbl, DOMAIN tbl \ D)

\* C19: when a scope whose only mutation is the delete of a Neighborhood,
\* a Street or a PoliceStation has committed, db is what the store was
\* without that entity and, for a Neighborhood, without the Streets that
\* referred to it; every other row is as it was.
C19_DeleteRemovesExactly ==
  Committed =>
    \A i \in 1 .. Len(log) :
      LET e == log[i]
          t == e.before
      IN e.op = "delete" /\ e.kind # "City" /\ e.res = "ok" /\ OnlyMutation(i) =>
           /\ db.City = t.City
           /\ db.Neighborhood = Without(t.Neighborhood, IF e.kind = "Neighborhood" THEN {e.id} ELSE {})
           /\ db.Street = Without(t.Street, CASE e.kind = "Neighborhood" -> StreetsUnder(t, {e.id})
                                              [] e.kind = "Street" -> {e.id}
                                              [] OTHER -> {})
           /\ db.PoliceStation = Without(t.PoliceStation, IF e.kind = "PoliceStation" THEN {e.id} ELSE {})
====
